---- MODULE Spec2Model ----
(***************************************************************************)
(* Game of Life on a wraparound grid (gol.py).                             *)
(*                                                                         *)
(* The population 'cells' is a dict from Point to Cell; compute_life       *)
(* builds the next population with the help of the per-call cache 'proc'.  *)
(* Dicts are modelled as functions whose DOMAIN is the set of keys, Points *)
(* as records [x, y], Cells as records [pos, gen].                         *)
(*                                                                         *)
(* 'hist' records what one call of compute_life has done so far: how often *)
(* each position was written into proc (pw) and into cells_next (wn), how  *)
(* often it was returned in a births list (nb), how often                  *)
(* num_cell_neighbors was called for it (nc), and whether such a call was  *)
(* ever made for a position that was already cached (bad); n holds, for    *)
(* each living cell visited, the count n that check_neighbors returned.    *)
(*                                                                         *)
(* Five specifications share the variables:                                *)
(*   Spec      the driver loop of main, started from the seed;             *)
(*   SpecPure  compute_life called on an arbitrary population of           *)
(*             normalized positions, every visiting order of the cells;    *)
(*   SpecLoop  the driver loop started from a 2x2 block or from the empty  *)
(*             population, at any generation;                              *)
(*   SpecOsc   the driver loop started from the horizontal blinker at the  *)
(*             grid edge;                                                  *)
(*   SpecAlign align_point applied to an arbitrary integer point.          *)
(***************************************************************************)
EXTENDS Integers, Sequences, FiniteSets, Bags, TLC

VARIABLES rows, cols, cells, gen, pc, todo, proc, cells_next, arg, res, hist

vars == <<rows, cols, cells, gen, pc, todo, proc, cells_next, arg, res, hist>>

(* ------------------------------ bounds --------------------------------- *)

\* largest terminal size (curses.LINES, curses.COLS) the driver starts with
MaxTerm == 6
\* largest cols and rows of the arbitrary populations and of align_point's grid
MaxCols == 5
MaxRows == 4
\* largest number of living cells of an arbitrary input population
MaxCells == 3
\* the driver loop is followed until the generation counter reaches MaxGen
MaxGen == 2
\* align_point is applied to coordinates in -MaxCoord .. MaxCoord
MaxCoord == 4

(* ------------------------------ values --------------------------------- *)

Point(x, y) == [x |-> x, y |-> y]

Cell(pos, g) == [pos |-> pos, gen |-> g]

\* the empty dict {}
EmptyDict == [p \in {} |-> FALSE]

\* d[k] = v
Put(d, k, v) == (k :> v) @@ d

\* a bug that would mistype the offset (0,1) as a second (0,-1)
dirs_mistyped == << <<-1,-1>>, <<-1,0>>, <<-1,1>>, <<0,-1>>,
                    <<0,-1>>, <<1,-1>>, <<1,0>>, <<1,1>> >>

\* nothing has been done yet
NoHist == [pw |-> EmptyBag, nc |-> EmptyBag, wn |-> EmptyBag, nb |-> EmptyBag,
           n |-> EmptyDict, bad |-> FALSE]

\* one more occurrence of k
Count(b, k) == b (+) SetToBag({k})

\* how often each element occurs in the list s
BagOfSeq(s) ==
    [p \in {s[i] : i \in 1..Len(s)} |-> Cardinality({i \in 1..Len(s) : s[i] = p})]

dirs == << <<-1,-1>>, <<-1,0>>, <<-1,1>>, <<0,-1>>,
           <<0,1>>, <<1,-1>>, <<1,0>>, <<1,1>> >>

(* ---------------------------- align_point ------------------------------ *)

\* Python's a % m for m # 0: the result has the sign of m
PyMod(a, m) == IF m > 0 THEN a % m ELSE -((-a) % (-m))

\* a % 0 raises ZeroDivisionError: align_point raises when cols or rows is 1
align_raises == (cols - 1 = 0) \/ (rows - 1 = 0)

align_point(point) ==
    Point(PyMod(point.x, cols - 1), PyMod(point.y, rows - 1))

\* Point(*tuple(map(lambda x, y: x + y, point, d)))
Shift(point, d) == Point(point.x + d[1], point.y + d[2])

(* -------------------------- num_cell_neighbors ------------------------- *)

RECURSIVE CountFrom(_, _, _)
CountFrom(i, point, cs) ==
    IF i > Len(dirs) THEN 0
    ELSE (IF align_point(Shift(point, dirs[i])) \in DOMAIN cs THEN 1 ELSE 0)
         + CountFrom(i + 1, point, cs)

num_cell_neighbors(point, cs) == CountFrom(1, point, cs)

(* ---------------------------- check_neighbors -------------------------- *)

\* a bug that would let 3 or more neighbours give birth
birth_rule_atleast(k) == k >= 3

\* elif num_cell_neighbors(np, cells) == 3
birth_rule(k) == k = 3

\* a bug that would cache birth candidacy together with occupancy
cache_value_candidate(is_cell, is_birth) == is_cell \/ is_birth

\* proc[np] = is_cell
cache_value(is_cell, is_birth) == is_cell

\* the else branch of line 62: np is met for the first time in this call of
\* compute_life; n, births and the cache are updated
FirstVisit(st, np, is_cell, is_birth) ==
    [n      |-> st.n + (IF is_cell THEN 1 ELSE 0),
     births |-> IF is_birth THEN Append(st.births, np) ELSE st.births,
     proc   |-> Put(st.proc, np, cache_value(is_cell, is_birth)),
     h      |-> [st.h EXCEPT
                   !.pw  = Count(@, np),
                   !.nc  = IF is_cell THEN @ ELSE Count(@, np),
                   !.bad = @ \/ ((~is_cell) /\ (np \in DOMAIN st.proc))]]

\* a bug that would examine np afresh every time, without the cache
Visit_nocache(st, np, cs) ==
    FirstVisit(st, np, np \in DOMAIN cs,
               (np \notin DOMAIN cs) /\ birth_rule(num_cell_neighbors(np, cs)))

\* the body of "for d in dirs" once np is computed; num_cell_neighbors is
\* called only for a point that is neither cached nor a cell
Visit(st, np, cs) ==
    IF np \in DOMAIN st.proc
    THEN [st EXCEPT !.n = @ + (IF st.proc[np] THEN 1 ELSE 0)]
    ELSE FirstVisit(st, np, np \in DOMAIN cs,
                    (np \notin DOMAIN cs) /\ birth_rule(num_cell_neighbors(np, cs)))

\* one iteration of "for d in dirs"; st = [n, births, proc, h]
NeighborStep(st, cell, cs, d) == Visit(st, align_point(Shift(cell.pos, d)), cs)

RECURSIVE NeighborLoop(_, _, _, _)
NeighborLoop(i, st, cell, cs) ==
    IF i > Len(dirs) THEN st
    ELSE NeighborLoop(i + 1, NeighborStep(st, cell, cs, dirs[i]), cell, cs)

\* returns n and births, the cache as the call leaves it, and in h what
\* this call has done
check_neighbors(cell, cs, pr) ==
    NeighborLoop(1, [n |-> 0, births |-> <<>>, proc |-> pr, h |-> NoHist], cell, cs)

(* ------------------------------ compute_life --------------------------- *)

\* a bug that would let a crowded cell (4 neighbours) live on
survives_four(n) == n \in {2, 3, 4}

\* a bug that would let only a cell with 2 neighbours live on
survives_two(n) == n = 2

\* if n in {2, 3}
survives(n) == n \in {2, 3}

\* a bug that would restamp a survivor with the new generation
survivor_restamped(cell, g) == Cell(cell.pos, g + 1)

\* cells_next[cell.pos] = cell
survivor(cell, g) == cell

\* a bug that would stamp a birth with the current generation
newborn_current(pos, g) == Cell(pos, g)

\* Cell(pos, gen + 1)
newborn(pos, g) == Cell(pos, g + 1)

\* a bug that would start the result from a cell at the origin
cells_next_origin == Put(EmptyDict, Point(0, 0), Cell(Point(0, 0), 0))

\* cells_next = {}
cells_next_init == EmptyDict

RECURSIVE PutBirths(_, _, _, _)
PutBirths(i, births, nxt, g) ==
    IF i > Len(births) THEN nxt
    ELSE PutBirths(i + 1, births, Put(nxt, births[i], newborn(births[i], g)), g)

\* what lines 77-81 add to the record of the call: the work of
\* check_neighbors and one write into cells_next for the survivor and for
\* every entry of births
HistAfter(h, r, cell) ==
    [pw  |-> h.pw (+) r.h.pw,
     nc  |-> h.nc (+) r.h.nc,
     nb  |-> h.nb (+) BagOfSeq(r.births),
     wn  |-> (h.wn (+) BagOfSeq(r.births))
             (+) (IF survives(r.n) THEN SetToBag({cell.pos}) ELSE EmptyBag),
     n   |-> Put(h.n, cell.pos, r.n),
     bad |-> h.bad \/ r.h.bad]

\* lines 78-81 for the outcome r = (n, births, proc) of check_neighbors
CellResult(r, st, cell, g) ==
    [proc       |-> r.proc,
     cells_next |-> PutBirths(1, r.births,
                              IF survives(r.n)
                              THEN Put(st.cells_next, cell.pos, survivor(cell, g))
                              ELSE st.cells_next, g),
     hist       |-> HistAfter(st.hist, r, cell)]

\* the body of "for cell in cells.values()"; st = [proc, cells_next, hist]
CellStep(st, cell, cs, g) ==
    CellResult(check_neighbors(cell, cs, st.proc), st, cell, g)

\* the keys of a dict in one fixed order
RECURSIVE KeySeq(_)
KeySeq(S) ==
    IF S = {} THEN <<>>
    ELSE LET k == CHOOSE p \in S :
                     \A q \in S : (p.x < q.x) \/ (p.x = q.x /\ p.y <= q.y)
         IN  <<k>> \o KeySeq(S \ {k})

RECURSIVE CellLoop(_, _, _, _, _)
CellLoop(i, ks, st, cs, g) ==
    IF i > Len(ks) THEN st
    ELSE CellLoop(i + 1, ks, CellStep(st, cs[ks[i]], cs, g), cs, g)

\* compute_life with the cells visited in the order of KeySeq
compute_life(cs, g) ==
    CellLoop(1, KeySeq(DOMAIN cs),
             [proc |-> EmptyDict, cells_next |-> cells_next_init, hist |-> NoHist],
             cs, g).cells_next

(* --------------------------------- main -------------------------------- *)

origo == Point(cols \div 2, rows \div 2)

\* R-Pentomino
seed == << <<-1,0>>, <<0,0>>, <<0,-1>>, <<0,1>>, <<1,1>> >>

seed_t == { Point(origo.x + seed[i][1], origo.y - seed[i][2]) : i \in 1..Len(seed) }

\* win.addch(cell.pos.y, cell.pos.x, ...) raises outside the window
InWindow(p) == (0 <= p.x) /\ (p.x < cols) /\ (0 <= p.y) /\ (p.y < rows)

NoRes == [tag |-> "none"]

\* rows = curses.LINES; cols = curses.COLS; gen = 0; cells = {seed}
Init ==
    /\ rows \in 1..MaxTerm
    /\ cols \in 1..MaxTerm
    /\ gen = 0
    /\ cells = [p \in seed_t |-> Cell(p, gen)]
    /\ pc = "render"
    /\ todo = {}
    /\ proc = EmptyDict
    /\ cells_next = EmptyDict
    /\ arg = Point(0, 0)
    /\ res = NoRes
    /\ hist = NoHist

\* the points align_point can return
NormalizedPoints == { Point(i, j) : i \in 0..(cols - 2), j \in 0..(rows - 2) }

\* a population over the positions S in generation g: each cell is stored
\* under its own position and was born at or before g (the birth
\* generations run 0, 1, .., g along the diagonals of the grid)
Population(S, g) == [p \in S |-> Cell(p, (p.x + p.y) % (g + 1))]

\* the subsets of P that have at most k elements
RECURSIVE Extend(_, _, _)
Extend(P, k, sets) ==
    IF k = 0 THEN sets
    ELSE Extend(P, k - 1, sets \cup { T \cup {p} : T \in sets, p \in P })

SmallSubsets(P, k) == Extend(P, k, {{}})

\* compute_life is about to be called, in the last generation before
\* MaxGen, with any population of at most MaxCells normalized positions
InitPure ==
    /\ rows \in 1..MaxRows
    /\ cols \in 1..MaxCols
    /\ gen = MaxGen - 1
    /\ \E S \in SmallSubsets(NormalizedPoints, MaxCells) :
          cells = Population(S, gen)
    /\ pc = "render"
    /\ todo = {}
    /\ proc = EmptyDict
    /\ cells_next = EmptyDict
    /\ arg = Point(0, 0)
    /\ res = NoRes
    /\ hist = NoHist

\* the 2x2 block whose corner is p
Block(p) == { align_point(Shift(p, d)) : d \in {<<0,0>>, <<1,0>>, <<0,1>>, <<1,1>>} }

\* the driver loop is at any generation, with the empty population or with
\* a 2x2 block anywhere on the grid
InitLoop ==
    /\ rows \in 1..MaxRows
    /\ cols \in 1..MaxCols
    /\ gen \in 0..(MaxGen - 1)
    /\ \E S \in {{}} \cup { Block(p) : p \in NormalizedPoints } :
          cells = Population(S, gen)
    /\ pc = "render"
    /\ todo = {}
    /\ proc = EmptyDict
    /\ cells_next = EmptyDict
    /\ arg = Point(0, 0)
    /\ res = NoRes
    /\ hist = NoHist

\* the horizontal blinker at the left and top edge of the grid
Blinker == { Point(0, 0), Point(1, 0), Point(2, 0) }

\* the driver loop starts at generation 0 with the blinker, on every grid
\* on which its three positions are normalized
InitOsc ==
    /\ rows \in 2..MaxTerm
    /\ cols \in 4..MaxTerm
    /\ gen = 0
    /\ cells = Population(Blinker, gen)
    /\ pc = "render"
    /\ todo = {}
    /\ proc = EmptyDict
    /\ cells_next = EmptyDict
    /\ arg = Point(0, 0)
    /\ res = NoRes
    /\ hist = NoHist

\* win.clear(); for cell in cells.values(): win.addch(...); win.refresh()
Render ==
    /\ pc = "render"
    /\ gen < MaxGen
    /\ pc' = IF \A k \in DOMAIN cells : InWindow(cells[k].pos)
             THEN "compute" ELSE "error"
    /\ UNCHANGED <<rows, cols, cells, gen, todo, proc, cells_next, arg, res, hist>>

\* compute_life is entered: proc = {}; cells_next = {}
Begin ==
    /\ pc = "compute"
    /\ proc' = EmptyDict
    /\ cells_next' = cells_next_init
    /\ todo' = DOMAIN cells
    /\ hist' = NoHist
    /\ pc' = "loop"
    /\ UNCHANGED <<rows, cols, cells, gen, arg, res>>

\* as CheckCell, but a cell that dies is deleted from the input population
CheckCell_inplace ==
    /\ pc = "loop"
    /\ \E k \in todo :
          IF align_raises
          THEN /\ pc' = "error"
               /\ UNCHANGED <<todo, proc, cells_next, hist, cells>>
          ELSE \E st \in {CellStep([proc |-> proc, cells_next |-> cells_next,
                                   hist |-> hist], cells[k], cells, gen)} :
                   /\ proc' = st.proc
                   /\ cells_next' = st.cells_next
                   /\ hist' = st.hist
                   /\ todo' = todo \ {k}
                   /\ pc' = "loop"
                   /\ cells' = IF k \in DOMAIN st.cells_next THEN cells
                                ELSE [q \in DOMAIN cells \ {k} |-> cells[q]]
    /\ UNCHANGED <<rows, cols, gen, arg, res>>

\* one iteration of "for cell in cells.values()", for any next cell
CheckCell ==
    /\ pc = "loop"
    /\ \E k \in todo :
          IF align_raises
          THEN /\ pc' = "error"
               /\ UNCHANGED <<todo, proc, cells_next, hist>>
          ELSE \E st \in {CellStep([proc |-> proc, cells_next |-> cells_next,
                                   hist |-> hist], cells[k], cells, gen)} :
                   /\ proc' = st.proc
                   /\ cells_next' = st.cells_next
                   /\ hist' = st.hist
                   /\ todo' = todo \ {k}
                   /\ pc' = "loop"
    /\ UNCHANGED <<rows, cols, cells, gen, arg, res>>

\* return cells_next; cells = compute_life(cells, gen); gen += 1; sleep
Return ==
    /\ pc = "loop"
    /\ todo = {}
    /\ cells' = cells_next
    /\ gen' = gen + 1
    /\ pc' = "render"
    /\ proc' = EmptyDict
    /\ cells_next' = EmptyDict
    /\ hist' = NoHist
    /\ UNCHANGED <<rows, cols, todo, arg, res>>

Next == Render \/ Begin \/ CheckCell \/ Return

Spec == Init /\ [][Next]_vars

SpecPure == InitPure /\ [][Next]_vars

SpecLoop == InitLoop /\ [][Next]_vars

SpecOsc == InitOsc /\ [][Next]_vars

\* align_point is about to be called with any integer point
InitAlign ==
    /\ rows \in 1..MaxRows
    /\ cols \in 1..MaxCols
    /\ arg \in { Point(i, j) : i \in (-MaxCoord)..MaxCoord, j \in (-MaxCoord)..MaxCoord }
    /\ res = NoRes
    /\ gen = 0
    /\ cells = EmptyDict
    /\ pc = "align"
    /\ todo = {}
    /\ proc = EmptyDict
    /\ cells_next = EmptyDict
    /\ hist = NoHist

\* res = align_point(arg), or the exception it raises
AlignPoint ==
    /\ pc = "align"
    /\ res' = IF align_raises THEN [tag |-> "raise"]
              ELSE [tag |-> "ok", pt |-> align_point(arg)]
    /\ pc' = "aligned"
    /\ UNCHANGED <<rows, cols, cells, gen, todo, proc, cells_next, arg, hist>>

NextAlign == AlignPoint

SpecAlign == InitAlign /\ [][NextAlign]_vars

(* ------------------------------ properties ----------------------------- *)

\* the for loop of compute_life has ended: cells is the input, cells_next the result
Done == (pc = "loop") /\ (todo = {})

\* how many of the 8 wraparound neighbours of p are keys of the population
Occupied(p) ==
    Cardinality({ i \in 1..Len(dirs) : align_point(Shift(p, dirs[i])) \in DOMAIN cells })

\* the living cells that have p among their 8 neighbours
Proposers(p) ==
    { k \in DOMAIN cells : \E i \in 1..Len(dirs) : align_point(Shift(k, dirs[i])) = p }

Dead == NormalizedPoints \ DOMAIN cells

\* p is equal to its own align_point image
Normalized(p) == (~align_raises) /\ (align_point(p) = p)

\* C1 Birth rule: in the result of compute_life(cells, gen) a dead position
\* with exactly 3 occupied neighbours is a key and holds a Cell of generation
\* gen + 1, and a dead position with any other number of occupied neighbours
\* is not a key.
C1_BirthRule ==
    Done => \A p \in Dead :
               IF Occupied(p) = 3
               THEN (p \in DOMAIN cells_next) /\ (cells_next[p].gen = gen + 1)
               ELSE p \notin DOMAIN cells_next

C1_Witness ==
    /\ Done
    /\ \E p \in Dead : (Occupied(p) = 3) /\ (p \in DOMAIN cells_next)
    /\ \E p \in Dead : (Occupied(p) = 2) /\ (p \notin DOMAIN cells_next)
    /\ \E p \in Dead : (Occupied(p) >= 4) /\ (p \notin DOMAIN cells_next)

\* C2 Survival rule: a living cell with 2 or 3 occupied neighbours is in the
\* result under its own position with the identical Cell value, and a living
\* cell with fewer than 2 or more than 4 occupied neighbours is absent.
C2_SurvivalRule ==
    Done => \A k \in DOMAIN cells :
               /\ (Occupied(k) \in {2, 3}) =>
                     (k \in DOMAIN cells_next) /\ (cells_next[k] = cells[k])
               /\ ((Occupied(k) < 2) \/ (Occupied(k) > 4)) =>
                     (k \notin DOMAIN cells_next)

C2_Witness ==
    /\ Done
    /\ \E k \in DOMAIN cells :
          /\ Occupied(k) \in {2, 3}
          /\ k \in DOMAIN cells_next
          /\ cells[k].gen < gen
    /\ \E k \in DOMAIN cells : (Occupied(k) < 2) /\ (k \notin DOMAIN cells_next)

\* C3 The result holds nothing but survivors and births: every entry is an
\* input entry with 2 or 3 occupied neighbours carried over unchanged, or a
\* Cell of generation gen + 1 at a dead position with exactly 3 occupied
\* neighbours; a living cell with exactly 4 occupied neighbours is absent;
\* every key is the pos of the Cell stored under it.
C3_OnlySurvivorsAndBirths ==
    Done =>
       /\ \A k \in DOMAIN cells_next :
             /\ cells_next[k].pos = k
             /\ \/ /\ k \in DOMAIN cells
                   /\ cells_next[k] = cells[k]
                   /\ Occupied(k) \in {2, 3}
                \/ /\ k \notin DOMAIN cells
                   /\ cells_next[k].gen = gen + 1
                   /\ Occupied(k) = 3
       /\ \A k \in DOMAIN cells : (Occupied(k) = 4) => (k \notin DOMAIN cells_next)

C3_Witness ==
    /\ Done
    /\ \E k \in DOMAIN cells_next : k \in DOMAIN cells
    /\ \E k \in DOMAIN cells_next : k \notin DOMAIN cells
    /\ \E k \in DOMAIN cells : (Occupied(k) = 4) /\ (k \notin DOMAIN cells_next)

\* C4 Order-independence: whatever order the living cells were visited in,
\* the result is the one compute_life gives for the fixed order of KeySeq.
C4_OrderIndependent == Done => (cells_next = compute_life(cells, gen))

C4_Witness ==
    /\ Done
    /\ Cardinality(DOMAIN cells) >= 3
    /\ \E p \in DOMAIN cells_next \ DOMAIN cells : Cardinality(Proposers(p)) >= 2
    /\ \E k \in DOMAIN cells : k \notin DOMAIN cells_next
    /\ cells_next = compute_life(cells, gen)

\* C5 Diagonal wraparound: align_point of (-1,-1) is (cols-1, rows-1), and a
\* living cell at (0,0) counts a living cell at (cols-1, rows-1) among its
\* occupied neighbours, in num_cell_neighbors and in check_neighbors.
C5_DiagonalWrap ==
    ((pc = "aligned") /\ (arg = Point(-1, -1))) =>
       /\ res.tag = "ok"
       /\ res.pt = Point(cols - 1, rows - 1)
       /\ LET far  == Point(cols - 1, rows - 1)
              both == Put(Put(EmptyDict, Point(0, 0), Cell(Point(0, 0), 0)),
                          far, Cell(far, 0))
          IN  /\ num_cell_neighbors(Point(0, 0), both) >= 1
              /\ check_neighbors(both[Point(0, 0)], both, EmptyDict).n >= 1

\* C6 Normalization: for every integer point and all positive cols, rows,
\* align_point returns without error a point in [0,cols) x [0,rows) that
\* align_point maps to itself.
C6_AlignTotalIdempotent ==
    (pc = "aligned") =>
       /\ res.tag = "ok"
       /\ (0 <= res.pt.x) /\ (res.pt.x < cols)
       /\ (0 <= res.pt.y) /\ (res.pt.y < rows)
       /\ align_point(res.pt) = res.pt

\* C7 In every state of the driver loop started from the seed, every key of
\* the population and every key of the cache is a normalized position.
C7_KeysNormalized ==
    /\ \A k \in DOMAIN cells : Normalized(k)
    /\ \A k \in DOMAIN proc : Normalized(k)

\* C8 No duplicate births: a dead position with exactly 3 occupied
\* neighbours that two or more living cells are adjacent to holds, in the
\* result, the one Cell (position, gen + 1); and during the loop every birth
\* already written is that Cell, whichever living cell was visited first.
C8_NoDuplicateBirths ==
    /\ Done =>
          \A p \in Dead :
             ((Occupied(p) = 3) /\ (Cardinality(Proposers(p)) >= 2)) =>
                (p \in DOMAIN cells_next) /\ (cells_next[p] = Cell(p, gen + 1))
    /\ (pc = "loop") =>
          \A p \in DOMAIN cells_next \ DOMAIN cells : cells_next[p] = Cell(p, gen + 1)

C8_Witness ==
    /\ Done
    /\ \E p \in Dead :
          /\ Occupied(p) = 3
          /\ Cardinality(Proposers(p)) = 3
          /\ cells_next[p] = Cell(p, gen + 1)

\* C9 The empty population is a fixed point: once the population is empty,
\* every step of the driver loop leaves it empty.
C9_EmptyFixedPoint == [][(DOMAIN cells = {}) => (DOMAIN cells' = {})]_vars

C9_Witness ==
    /\ Done
    /\ DOMAIN cells = {}
    /\ DOMAIN cells_next = {}

\* a 2x2 block of four distinct cells
IsBlock(cs) ==
    /\ Cardinality(DOMAIN cs) = 4
    /\ \E p \in DOMAIN cs : DOMAIN cs = Block(p)

\* C10 Still life: on a grid of at least 3 x 3 positions (cols, rows >= 4) a
\* 2x2 block is mapped to itself, same positions and same generation
\* numbers, by every step of the driver loop.
C10_BlockStillLife ==
    [][((cols >= 4) /\ (rows >= 4) /\ IsBlock(cells)) => (cells' = cells)]_vars

C10_Witness ==
    /\ Done
    /\ IsBlock(cells) /\ (cols >= 4) /\ (rows >= 4)
    /\ \A k \in DOMAIN cells : Occupied(k) = 3
    /\ cells_next = cells
    /\ \E k \in DOMAIN cells : cells[k].gen < gen

\* the vertical triple (1,-1), (1,0), (1,1), normalized
Vertical == { align_point(Point(1, -1)), Point(1, 0), align_point(Point(1, 1)) }

\* C11 Oscillator: on every grid with cols >= 5 and rows >= 5 the blinker
\* (0,0),(1,0),(2,0) occupies after one step exactly the vertical triple
\* and after two steps exactly its original positions.
C11_Oscillator ==
    ((cols >= 5) /\ (rows >= 5) /\ (pc = "render")) =>
       /\ (gen = 1) => (DOMAIN cells = Vertical)
       /\ (gen = 2) => (DOMAIN cells = Blinker)

C11_Witness ==
    /\ (cols >= 5) /\ (rows >= 5) /\ (pc = "render")
    /\ gen = 2
    /\ DOMAIN cells = Blinker
    /\ cells[Point(1, 0)].gen = 0
    /\ cells[Point(0, 0)].gen = 2

\* C12 Input unchanged, fresh result and cache: from the entry of
\* compute_life until its return the input population keeps exactly its
\* keys and Cell values; on entry the result map and the cache proc are
\* empty, whatever an earlier call left behind.
C12_InputUnchanged ==
    [][ /\ ((pc = "compute") \/ ((pc = "loop") /\ (pc' # "render")))
            => (cells' = cells)
        /\ (pc = "compute")
            => ((proc' = EmptyDict) /\ (cells_next' = EmptyDict)) ]_vars

\* the second call has finished: it has filled its own cache and built a
\* result that differs from its input, which still holds a cell that dies
C12_Witness ==
    /\ Done
    /\ gen = 1
    /\ proc # EmptyDict
    /\ \E k \in DOMAIN cells : k \notin DOMAIN cells_next
    /\ \E k \in DOMAIN cells_next : k \notin DOMAIN cells

C14_AssignedOnce ==
    (pc = "loop") =>
       /\ \A p \in DOMAIN cells_next : CopiesIn(p, hist.wn) = 1
       /\ \A p \in BagToSet(hist.nb) :
             /\ CopiesIn(p, hist.nb) = 1
             /\ p \notin DOMAIN cells
             /\ p \in DOMAIN cells_next

\* on a torus 2 positions wide a call has ended with a survivor and with a
\* birth at a position that two or more living cells are adjacent to
C14_Witness ==
    /\ Done
    /\ cols = 3
    /\ \E k \in DOMAIN cells : k \in DOMAIN cells_next
    /\ \E p \in DOMAIN cells_next \ DOMAIN cells : Cardinality(Proposers(p)) >= 2

\* C15 Cache consistency: every step of a compute_life call leaves a cache
\* in which each position has been written exactly once and is cached as
\* TRUE exactly if it is a key of the input population; an entry, once
\* written, stays with its value until the call returns; and the count n
\* that check_neighbors returned for each living cell, through the cache,
\* is the number of its 8 neighbours that are keys of the input.
C15_CacheConsistent ==
    [][ (pc' = "loop") =>
           /\ \A p \in DOMAIN proc' :
                 /\ proc'[p] = (p \in DOMAIN cells')
                 /\ CopiesIn(p, hist'.pw) = 1
           /\ (pc = "loop") =>
                 \A p \in DOMAIN proc : (p \in DOMAIN proc') /\ (proc'[p] = proc[p])
           /\ \A k \in DOMAIN hist'.n : hist'.n[k] = Occupied(k)' ]_vars

\* a call has ended whose cache holds both values, among them a birth
\* position cached FALSE, and which has answered from the cache for a
\* position that two living cells are adjacent to
C15_Witness ==
    /\ Done
    /\ \E p \in DOMAIN proc : proc[p] /\ (Cardinality(Proposers(p)) >= 2)
    /\ \E p \in DOMAIN proc :
          (~proc[p]) /\ (p \in DOMAIN cells_next) /\ (Cardinality(Proposers(p)) >= 2)
    /\ \E k \in DOMAIN hist.n : hist.n[k] >= 2

\* C16 Calls of num_cell_neighbors: at every point of a compute_life call,
\* num_cell_neighbors has been called at most once for any position, never
\* for a position that was in the cache at the time of the call, and only
\* for positions that are not keys of the input population; each such call
\* returned a count between 0 and 8.
C16_CountedOnce ==
    (pc = "loop") =>
       /\ ~hist.bad
       /\ \A p \in BagToSet(hist.nc) :
             /\ CopiesIn(p, hist.nc) = 1
             /\ p \notin DOMAIN cells
             /\ num_cell_neighbors(p, cells) \in 0..8

\* a call has ended in which num_cell_neighbors was called for a dead
\* position that three living cells are adjacent to, and for one it
\* counted 3 and for another fewer
C16_Witness ==
    /\ Done
    /\ \E p \in BagToSet(hist.nc) :
          (Cardinality(Proposers(p)) >= 3) /\ (num_cell_neighbors(p, cells) = 3)
    /\ \E p \in BagToSet(hist.nc) : num_cell_neighbors(p, cells) < 3
    /\ \E p \in DOMAIN proc : p \notin BagToSet(hist.nc)

\* C17 Generation numbers in the driver loop: after every step from the
\* seed, every cell of the population has a generation number between 0 and
\* the generation counter (so the seed cells, at counter 0, have 0); a key
\* that enters the population with the step that brings the counter to j
\* holds generation j; and a key that stays keeps its generation number.
C17_GenNumbers ==
    [][ /\ \A k \in DOMAIN cells' :
              (0 <= cells'[k].gen) /\ (cells'[k].gen <= gen')
        /\ \A k \in DOMAIN cells' :
              IF k \in DOMAIN cells
              THEN cells'[k].gen = cells[k].gen
              ELSE cells'[k].gen = gen' ]_vars

\* after two steps the population holds a seed cell, a cell born in the
\* first step and a cell born in the second
C17_Witness ==
    /\ pc = "render"
    /\ gen = 2
    /\ \E k \in DOMAIN cells : cells[k].gen = 0
    /\ \E k \in DOMAIN cells : cells[k].gen = 1
    /\ \E k \in DOMAIN cells : cells[k].gen = 2

====
